---- MODULE Spec2Model ----
(***************************************************************************)
(* Streak and statistics engine of Beat_Fitness (utils/streaks,            *)
(* utils/statistics).                                                      *)
(*                                                                         *)
(* Instants are whole hours since 1970-01-01T00:00Z (the code works in     *)
(* milliseconds; every instant of the model is a whole hour).  The local   *)
(* zone has a fixed offset tzOffset (hours east of UTC, negative = west).  *)
(* A date key "YYYY-MM-DD" is the number YYYYMMDD: for four-digit years    *)
(* the zero-padded string order is the numeric order.  null is NULL.       *)
(* Weights are in units of 1/WeightScale kg, so fractional weights such as *)
(* 1.5 kg are representable; volumes carry the same scale.                 *)
(***************************************************************************)
EXTENDS Integers, Sequences, FiniteSets, TLC

VARIABLES sessions, now, tzOffset, op, args, result,
          activeSession, addingSetFor, requests

vars == <<sessions, now, tzOffset, op, args, result,
          activeSession, addingSetFor, requests>>

\* the workout screen: the exercises of the store's active session, the
\* component's addingSetFor, and the createWorkoutSet calls in flight
screenVars == <<activeSession, addingSetFor, requests>>

\* the inputs and the outcome of the statistics and streak functions
coreVars == <<sessions, now, tzOffset, op, args, result>>

NULL == -1

\* the null of addingSetFor, which otherwise holds an exercise id
NoExercise == "null"

HoursPerDay == 24

WeightScale == 2            \* weights are in half kilograms

\* ------------------------------------------------------------------------
\* Bounds of the explored inputs
\* ------------------------------------------------------------------------
BaseDay == 19781            \* 2024-02-28, so that the window crosses a
                            \* leap day and a month boundary
TickHours == 12             \* spacing of the instants drawn for ended_at
MaxTick == 5                \* instants BaseDay*24 + k*TickHours, k in 0..MaxTick
MaxStreakSessions == 3      \* longest session list of the streak inputs
TzHours == 6                \* local zones UTC-TzHours, UTC, UTC+TzHours
MaxLog == 2                 \* most sets of a logged input
MaxWeight == 4              \* heaviest logged weight, in 1/WeightScale kg
MaxReps == 3                \* most reps of a logged set
MaxAttrSessions == 2        \* longest list of the attribute inputs
MaxSparseSessions == 2      \* longest list of the sparse inputs
MaxMuscleExercises == 2     \* most exercises of a muscle-group input
MaxTargetSets == 2          \* greatest targetSets of an exercise on the screen
MaxSets == 3                \* most sets added to one exercise on the screen
MaxInFlight == 2            \* most createWorkoutSet calls in flight at once

Instant(k) == BaseDay * HoursPerDay + k * TickHours

Instants == { Instant(k) : k \in 0..MaxTick }

TzOffsets == { -TzHours, 0, TzHours }

NowInstants == { Instant(MaxTick - 1), Instant(MaxTick) }

SeqUpTo(S, n) == UNION { [1..k -> S] : k \in 0..n }

\* ------------------------------------------------------------------------
\* Date (the JavaScript built-in, proleptic Gregorian calendar)
\* ------------------------------------------------------------------------
\* day number (days since 1970-01-01) -> <<year, month (1..12), day>>
CivilFromDays(z) ==
    LET zz  == z + 719468
        era == zz \div 146097
        doe == zz - era * 146097
        yoe == (doe - doe \div 1460 + doe \div 36524 - doe \div 146096) \div 365
        doy == doe - (365 * yoe + yoe \div 4 - yoe \div 100)
        mp  == (5 * doy + 2) \div 153
        d   == doy - (153 * mp + 2) \div 5 + 1
        m   == IF mp < 10 THEN mp + 3 ELSE mp - 9
        y   == yoe + era * 400 + (IF m <= 2 THEN 1 ELSE 0)
    IN  <<y, m, d>>

\* <<year, month, day>> -> day number
DaysFromCivil(y, m, d) ==
    LET yy  == IF m <= 2 THEN y - 1 ELSE y
        era == yy \div 400
        yoe == yy - era * 400
        doy == (153 * (IF m > 2 THEN m - 3 ELSE m + 9) + 2) \div 5 + d - 1
        doe == yoe * 365 + yoe \div 4 - yoe \div 100 + doy
    IN  era * 146097 + doe - 719468

\* the fields read on the UTC clock instead (getUTCFullYear and friends)
LocalFieldsUTC(t) == CivilFromDays(t \div HoursPerDay)

\* date.getFullYear(), date.getMonth() + 1, date.getDate(): the fields of the
\* instant t on the local wall clock
LocalFields(t) == CivilFromDays((t + tzOffset) \div HoursPerDay)

\* new Date("YYYY-MM-DD"): a date-only string is parsed as midnight UTC
ParseDateKey(key) ==
    DaysFromCivil(key \div 10000, (key \div 100) % 100, key % 100) * HoursPerDay

\* the date moved n days later instead
SetDateForward(t, n) == t + n * HoursPerDay

\* d.setDate(d.getDate() - n): n days earlier on the local wall clock, which
\* in a zone of fixed offset is n * 24 hours earlier
SetDateBack(t, n) == t - n * HoursPerDay

\* ------------------------------------------------------------------------
\* utils/streaks
\* ------------------------------------------------------------------------
toLocalDateString(t) ==
    LET f == LocalFields(t)
    IN  f[1] * 10000 + f[2] * 100 + f[3]

getWorkoutDays(ss) ==
    { toLocalDateString(ss[i].ended_at) :
        i \in { j \in 1..Len(ss) : ss[j].ended_at # NULL } }

\* Array.from(set).sort(): ascending order of the keys
RECURSIVE SortedDates(_)
SortedDates(S) ==
    IF S = {} THEN <<>>
    ELSE LET m == CHOOSE x \in S : \A y \in S : x <= y
         IN  <<m>> \o SortedDates(S \ {m})

\* the while(true) loop of the current streak: count while the local date
\* of streakDate is a workout day, stepping one day back each time
RECURSIVE StreakWalk(_, _, _)
StreakWalk(dateSet, streakDate, count) ==
    IF toLocalDateString(streakDate) \in dateSet
    THEN StreakWalk(dateSet, SetDateBack(streakDate, 1), count + 1)
    ELSE count

CurrentStreak(dateSet, clock) ==
    LET today        == toLocalDateString(clock)
        foundToday   == today \in dateSet
        yesterday    == SetDateBack(ParseDateKey(today), 1)
        yesterdayStr == toLocalDateString(yesterday)
        foundYesterday == yesterdayStr \in dateSet
    IN  IF foundToday \/ foundYesterday
        THEN StreakWalk(dateSet,
                        IF foundToday THEN ParseDateKey(today)
                                      ELSE ParseDateKey(yesterdayStr),
                        0)
        ELSE 0

\* the sortedDates.forEach of the longest streak; st = <<longest, temp, prev>>
RECURSIVE LongestWalk(_, _, _)
LongestWalk(sortedDates, i, st) ==
    IF i > Len(sortedDates) THEN st
    ELSE LET currentDate == ParseDateKey(sortedDates[i])
             dayDiff     == (currentDate - st[3]) \div HoursPerDay
             nxt == IF st[3] = NULL THEN <<st[1], 1, currentDate>>
                    ELSE IF dayDiff = 1 THEN <<st[1], st[2] + 1, currentDate>>
                    ELSE <<IF st[1] > st[2] THEN st[1] ELSE st[2], 1, currentDate>>
         IN  LongestWalk(sortedDates, i + 1, nxt)

\* the smaller of the two in place of the greater
Smaller(a, b) == IF a > b THEN b ELSE a

Max(a, b) == IF a > b THEN a ELSE b

\* counting workout days instead of sessions
TotalWorkoutsByDay(ss) == Cardinality(getWorkoutDays(ss))

\* sessions.filter(s => s.ended_at).length
TotalWorkouts(ss) == Cardinality({ i \in 1..Len(ss) : ss[i].ended_at # NULL })

calculateStreaks(ss, clock) ==
    LET workoutDays == getWorkoutDays(ss)
    IN  IF Cardinality(workoutDays) = 0
        THEN [currentStreak |-> 0, longestStreak |-> 0, totalWorkouts |-> 0]
        ELSE LET sortedDates   == SortedDates(workoutDays)
                 currentStreak == CurrentStreak(workoutDays, clock)
                 st            == LongestWalk(sortedDates, 1, <<0, 0, NULL>>)
                 longestStreak == Max(st[1], st[2])
             IN  [currentStreak |-> currentStreak,
                  longestStreak |-> Max(longestStreak, currentStreak),
                  totalWorkouts |-> TotalWorkouts(ss)]

\* Array.from(workoutDays): the keys in the order the Set first received them
RECURSIVE WorkoutDayOrder(_, _, _)
WorkoutDayOrder(ss, i, acc) ==
    IF i > Len(ss) THEN acc
    ELSE IF ss[i].ended_at = NULL THEN WorkoutDayOrder(ss, i + 1, acc)
    ELSE LET dateStr == toLocalDateString(ss[i].ended_at)
         IN  IF \E k \in 1..Len(acc) : acc[k] = dateStr
             THEN WorkoutDayOrder(ss, i + 1, acc)
             ELSE WorkoutDayOrder(ss, i + 1, Append(acc, dateStr))

\* the month taken as the calendar's month number
getWorkoutDatesForMonthOneBased(year, month, ss) ==
    LET prefix == year * 100 + month
        startsWith(date) == date \div 100 = prefix
    IN  SelectSeq(WorkoutDayOrder(ss, 1, <<>>), startsWith)

\* month is the zero-based month index; prefix "YYYY-MM" of the key
getWorkoutDatesForMonth(year, month, ss) ==
    LET prefix == year * 100 + (month + 1)
        startsWith(date) == date \div 100 = prefix
    IN  SelectSeq(WorkoutDayOrder(ss, 1, <<>>), startsWith)

\* workoutDays.size / weeks, held as <<workoutDays.size, weeks>>; the cutoff
\* goes through toISOString and back, which keeps the instant
getWeeklyFrequency(ss, weeks, clock) ==
    LET cutoffDate == SetDateBack(clock, weeks * 7)
        cutoffStr  == toLocalDateString(cutoffDate)
        recent(session) == /\ session.ended_at # NULL
                           /\ toLocalDateString(session.ended_at) >= cutoffStr
        recentWorkouts == SelectSeq(ss, recent)
    IN  <<Cardinality(getWorkoutDays(recentWorkouts)), weeks>>

\* ------------------------------------------------------------------------
\* utils/statistics
\* ------------------------------------------------------------------------
\* x || 0 on a number or null
OrZero(x) == IF x = NULL THEN 0 ELSE x

\* Math.floor(num / den) for den > 0
RoundDown(num, den) == num \div den

\* Math.round(num / den) for den > 0: floor(num / den + 1/2)
Round(num, den) == (2 * num + den) \div (2 * den)

\* a filter that lets every session pass
KeepAll(s) == TRUE

\* s.ended_at is truthy
HasEnded(s) == s.ended_at # NULL


\* An optional array (workout_exercises?, workout_sets?) is <<>> when the
\* field is missing and <<array>> when it is there.
Missing == <<>>

Some(array) == <<array>>

\* array?.forEach(...): the elements visited, none when the array is missing
Elements(opt) == IF opt = Missing THEN <<>> ELSE opt[1]

\* the nested forEach over workout_exercises and workout_sets: the sets of
\* the sessions of ss in scan order, each with the name of its exercise
RECURSIVE SetsOfExercises(_, _)
SetsOfExercises(exs, i) ==
    IF i > Len(exs) THEN <<>>
    ELSE LET sets == Elements(exs[i].workout_sets)
         IN  [k \in 1..Len(sets) |-> [name |-> exs[i].name, set |-> sets[k]]]
             \o SetsOfExercises(exs, i + 1)

RECURSIVE ScanSets(_, _)
ScanSets(ss, i) ==
    IF i > Len(ss) THEN <<>>
    ELSE SetsOfExercises(Elements(ss[i].workout_exercises), 1)
         \o ScanSets(ss, i + 1)

RECURSIVE SumSeq(_, _)
SumSeq(q, i) == IF i > Len(q) THEN 0 ELSE q[i] + SumSeq(q, i + 1)

SetVolume(set) == OrZero(set.weight) * OrZero(set.reps)

\* a RIR of 0 taken for no RIR
HasRirTruthy(rir) == rir # NULL /\ rir # 0

\* set.rir !== null && set.rir !== undefined
HasRir(rir) == rir # NULL

\* an average rounded to a whole number, in tenths
RoundWhole(num, den) == Round(num, den) * 10

\* Math.round(x * 10) / 10 of x = num / den, in tenths
RoundTenths(num, den) == Round(num * 10, den)

\* an average of no RIR data reported as 0
AvgRirOrZero(totalRirSum, totalRirCount) ==
    IF totalRirCount > 0 THEN Round(totalRirSum * 10, totalRirCount) ELSE 0

\* totalRirCount > 0 ? totalRirSum / totalRirCount : null, to one decimal
AvgRir(totalRirSum, totalRirCount) ==
    IF totalRirCount > 0 THEN Round(totalRirSum * 10, totalRirCount) ELSE NULL

\* one-decimal results (Math.round(x * 10) / 10) are held in tenths; volumes
\* before rounding are in 1/WeightScale kg
computeAllTimeStats(ss) ==
    LET completedSessions == SelectSeq(ss, HasEnded)
        sets          == ScanSets(completedSessions, 1)
        totalSets     == Len(sets)
        totalReps     == SumSeq([k \in 1..Len(sets) |-> OrZero(sets[k].set.reps)], 1)
        totalVolume   == SumSeq([k \in 1..Len(sets) |-> SetVolume(sets[k].set)], 1)
        totalDuration == SumSeq([k \in 1..Len(completedSessions) |->
                                   OrZero(completedSessions[k].total_duration_sec)], 1)
        rirs          == SelectSeq([k \in 1..Len(sets) |-> sets[k].set.rir], HasRir)
        totalRirCount == Len(rirs)
        totalRirSum   == SumSeq(rirs, 1)
        totalWorkouts == Len(completedSessions)
    IN  [totalWorkouts |-> totalWorkouts,
         totalSets |-> totalSets,
         totalReps |-> totalReps,
         totalVolume |-> Round(totalVolume, WeightScale),
         totalDuration |-> Round(totalDuration, 60),
         avgDuration |-> IF totalWorkouts > 0
                         THEN RoundTenths(totalDuration, totalWorkouts * 60) ELSE 0,
         avgSetsPerWorkout |-> IF totalWorkouts > 0
                               THEN RoundTenths(totalSets, totalWorkouts) ELSE 0,
         avgVolumePerWorkout |-> IF totalWorkouts > 0
                                 THEN Round(totalVolume, totalWorkouts * WeightScale)
                                 ELSE 0,
         avgRepsPerSet |-> IF totalSets > 0
                           THEN RoundTenths(totalReps, totalSets) ELSE 0,
         avgRir |-> AvgRir(totalRirSum, totalRirCount)]

\* a period that takes in its end date
InPeriodInclusive(sessionDate, startDate, endDate) ==
    sessionDate >= startDate /\ sessionDate <= endDate

\* sessionDate >= startDate && sessionDate < endDate
InPeriod(sessionDate, startDate, endDate) ==
    sessionDate >= startDate /\ sessionDate < endDate

computePeriodStats(ss, startDate, endDate) ==
    LET inPeriod(s) == /\ s.ended_at # NULL
                       /\ InPeriod(s.started_at, startDate, endDate)
        filteredSessions == SelectSeq(ss, inPeriod)
        sets     == ScanSets(filteredSessions, 1)
        reps     == SumSeq([k \in 1..Len(sets) |-> OrZero(sets[k].set.reps)], 1)
        volume   == SumSeq([k \in 1..Len(sets) |-> SetVolume(sets[k].set)], 1)
        duration == SumSeq([k \in 1..Len(filteredSessions) |->
                              OrZero(filteredSessions[k].total_duration_sec)], 1)
    IN  [workouts |-> Len(filteredSessions),
         sets |-> Len(sets),
         reps |-> reps,
         volume |-> Round(volume, WeightScale),
         duration |-> Round(duration, 60)]

\* no change reported against an empty previous period
calculateChangeZero(current, previous) ==
    IF previous = 0 THEN 0
    ELSE Round((current - previous) * 100, previous)

calculateChange(current, previous) ==
    IF previous = 0 THEN (IF current > 0 THEN 100 ELSE 0)
    ELSE Round((current - previous) * 100, previous)

computePeriodComparison(ss, days, clock) ==
    LET currentPeriodStart  == SetDateBack(clock, days)
        previousPeriodStart == SetDateBack(clock, days * 2)
        currentStats  == computePeriodStats(ss, currentPeriodStart, clock)
        previousStats == computePeriodStats(ss, previousPeriodStart, currentPeriodStart)
    IN  [current |-> currentStats,
         previous |-> previousStats,
         changes |->
           [workouts |-> calculateChange(currentStats.workouts, previousStats.workouts),
            volume |-> calculateChange(currentStats.volume, previousStats.volume),
            duration |-> calculateChange(currentStats.duration, previousStats.duration)]]

\* position of the key in an insertion-ordered Map held as a sequence, or 0
IndexOf(records, key, field) ==
    IF \E k \in 1..Len(records) : records[k][field] = key
    THEN CHOOSE k \in 1..Len(records) : records[k][field] = key
    ELSE 0

\* the test with >= in place of >: a set that only equals the best volume
\* replaces the record
TiesOrBeatsRecord(volume, existing) == volume >= existing.maxVolume

\* volume > existing.maxVolume
BeatsRecord(volume, existing) == volume > existing.maxVolume

\* the reps update taken whatever the reps
AlwaysBetterReps(reps, existing) == TRUE

\* reps > existing.maxReps
BetterReps(reps, existing) == reps > existing.maxReps

\* a weight that never updates a standing record
NeverBetterWeight(weight, existing) == FALSE

\* weight > existing.maxWeight
BetterWeight(weight, existing) == weight > existing.maxWeight

\* the body of the set loop of computePersonalRecords: exerciseRecords after
\* one set of the exercise name
RecordSet(records, name, set) ==
    LET weight == OrZero(set.weight)
        reps   == OrZero(set.reps)
        volume == weight * reps
        at     == IndexOf(records, name, "exerciseName")
        fresh  == [exerciseName |-> name, maxWeight |-> weight, maxReps |-> reps,
                   maxVolume |-> volume, achievedAt |-> set.completed_at]
    IN  IF at = 0 THEN Append(records, fresh)
        ELSE LET existing == records[at]
             IN  IF BeatsRecord(volume, existing)
                 THEN [records EXCEPT ![at] = fresh]
                 ELSE LET afterWeight ==
                            IF BetterWeight(weight, existing)
                            THEN [existing EXCEPT !.maxWeight = weight]
                            ELSE existing
                          afterReps ==
                            IF BetterReps(reps, existing)
                            THEN [existing EXCEPT !.maxReps = reps]
                            ELSE afterWeight
                      IN  [records EXCEPT ![at] = afterReps]

RECURSIVE RecordSets(_, _, _)
RecordSets(sets, i, records) ==
    IF i > Len(sets) THEN records
    ELSE RecordSets(sets, i + 1, RecordSet(records, sets[i].name, sets[i].set))

\* Array.prototype.sort with a comparator that orders by field, stable;
\* desc = TRUE for (a, b) => b - a
RECURSIVE InsertSorted(_, _, _, _)
InsertSorted(sorted, x, field, desc) ==
    IF sorted = <<>> THEN <<x>>
    ELSE LET last == sorted[Len(sorted)]
             before == IF desc THEN x[field] > last[field]
                               ELSE x[field] < last[field]
         IN  IF before
             THEN Append(InsertSorted(SubSeq(sorted, 1, Len(sorted) - 1), x, field, desc),
                         last)
             ELSE Append(sorted, x)

RECURSIVE SortBy(_, _, _, _, _)
SortBy(q, i, field, desc, acc) ==
    IF i > Len(q) THEN acc
    ELSE SortBy(q, i + 1, field, desc, InsertSorted(acc, q[i], field, desc))

\* q.slice(0, limit) for limit >= 0
\* the last limit elements in place of the first
SliceEnd(q, limit) ==
    SubSeq(q, (IF limit < Len(q) THEN Len(q) - limit ELSE 0) + 1, Len(q))

SliceFirst(q, limit) == SubSeq(q, 1, IF limit < Len(q) THEN limit ELSE Len(q))

\* the oldest limit elements kept in place of the latest
SliceOldest(q, limit) == SubSeq(q, 1, IF limit < Len(q) THEN limit ELSE Len(q))

\* q.slice(-limit) for limit >= 0; -0 is 0, so slice(-0) is the whole array
SliceLast(q, limit) ==
    IF limit = 0 \/ limit >= Len(q) THEN q
    ELSE SubSeq(q, Len(q) - limit + 1, Len(q))

computePersonalRecords(ss, limit) ==
    LET exerciseRecords ==
            RecordSets(ScanSets(SelectSeq(ss, HasEnded), 1), 1, <<>>)
    IN  SliceFirst(SortBy(exerciseRecords, 1, "maxVolume", TRUE, <<>>), limit)

\* String.prototype.toLowerCase on the exercise names of the model
\* a lookup that keeps the letter case
KeepCase(name) == name

toLowerCase(name) ==
    CASE name = "Squat" -> "squat"
      [] name = "Bench Press" -> "bench press"
      [] name = "BENCH PRESS" -> "bench press"
      [] name = "Plank" -> "plank"
      [] name = "Stretch" -> "stretch"
      [] OTHER -> name

\* data/exerciseTemplates.json: name and primaryMuscles of each template
exerciseTemplates ==
    << [name |-> "Squat", primaryMuscles |-> <<"Quadriceps">>],
       [name |-> "Bench Press", primaryMuscles |-> <<"Chest", "Triceps">>],
       [name |-> "Stretch", primaryMuscles |-> <<>>] >>

\* only the first primary muscle of the template is looked up
MuscleGroupsOfFirst(exerciseName) ==
    LET hits == { k \in 1..Len(exerciseTemplates) :
                    toLowerCase(exerciseTemplates[k].name) = exerciseName }
    IN  IF hits = {} THEN <<"Other">>
        ELSE LET muscles ==
                   exerciseTemplates[CHOOSE k \in hits : \A j \in hits : j <= k].primaryMuscles
             IN  IF muscles = <<>> THEN <<>> ELSE <<muscles[1]>>

\* exerciseMuscleMap.get(exerciseName) || ['Other'] on the map built by
\* createExerciseMuscleMap (a later template of the same name wins); the
\* empty array of a template without primary muscles (primaryMuscles || [])
\* is truthy and is what the lookup returns
MuscleGroupsOf(exerciseName) ==
    LET hits == { k \in 1..Len(exerciseTemplates) :
                    toLowerCase(exerciseTemplates[k].name) = exerciseName }
    IN  IF hits = {} THEN <<"Other">>
        ELSE exerciseTemplates[CHOOSE k \in hits : \A j \in hits : j <= k].primaryMuscles

\* muscleGroups.forEach for one set: muscleGroupStats after the set
RECURSIVE AttributeSet(_, _, _, _)
AttributeSet(stats, groups, g, set) ==
    IF g > Len(groups) THEN stats
    ELSE LET at == IndexOf(stats, groups[g], "muscleGroup")
             existing == IF at = 0
                         THEN [muscleGroup |-> groups[g], volume |-> 0,
                               sets |-> 0, reps |-> 0]
                         ELSE stats[at]
             updated == [muscleGroup |-> groups[g],
                         volume |-> existing.volume + SetVolume(set),
                         sets |-> existing.sets + 1,
                         reps |-> existing.reps + OrZero(set.reps)]
         IN  AttributeSet(IF at = 0 THEN Append(stats, updated)
                                    ELSE [stats EXCEPT ![at] = updated],
                          groups, g + 1, set)

RECURSIVE AttributeSets(_, _, _)
AttributeSets(sets, i, stats) ==
    IF i > Len(sets) THEN stats
    ELSE AttributeSets(sets, i + 1,
             AttributeSet(stats, MuscleGroupsOf(toLowerCase(sets[i].name)), 1,
                          sets[i].set))

\* a share cut down to a whole percent
PercentageFloor(volume, totalVolume) ==
    IF totalVolume > 0 THEN RoundDown(volume * 100, totalVolume) ELSE 0

\* totalVolume > 0 ? Math.round((stats.volume / totalVolume) * 100) : 0
Percentage(volume, totalVolume) ==
    IF totalVolume > 0 THEN Round(volume * 100, totalVolume) ELSE 0

computeMuscleGroupBreakdown(ss) ==
    LET sets == ScanSets(SelectSeq(ss, HasEnded), 1)
        totalVolume == SumSeq([k \in 1..Len(sets) |-> SetVolume(sets[k].set)], 1)
        muscleGroupStats == AttributeSets(sets, 1, <<>>)
        muscleGroupArray ==
            [k \in 1..Len(muscleGroupStats) |->
                [muscleGroup |-> muscleGroupStats[k].muscleGroup,
                 volume |-> Round(muscleGroupStats[k].volume, WeightScale),
                 sets |-> muscleGroupStats[k].sets,
                 reps |-> muscleGroupStats[k].reps,
                 percentage |-> Percentage(muscleGroupStats[k].volume, totalVolume)]]
    IN  SortBy(muscleGroupArray, 1, "volume", TRUE, <<>>)

\* toLocaleDateString('en-US', {month: 'short', day: 'numeric'}): the local
\* month and day of the instant
ShortDate(t) == <<LocalFields(t)[2], LocalFields(t)[3]>>

\* the sort working on the caller's own array
CallersArray == "sessions"

\* sessions.filter(...) returns a new array, and that is the array sort
\* orders in place
FilteredArray == "filtered"

\* sessions.filter(...).sort(...) on a heap of two arrays, the caller's and
\* the one filter allocates: the heap after the sort
FilterThenSort(ss) ==
    LET scored(s) == s.ended_at # NULL /\ s.strength_score # NULL
        called   == [sessions |-> ss, filtered |-> <<>>]
        filtered == [called EXCEPT ![FilteredArray] = SelectSeq(called.sessions, scored)]
    IN  [filtered EXCEPT ![FilteredArray] =
            SortBy(filtered[FilteredArray], 1, "started_at", FALSE, <<>>)]

prepareStrengthTrendData(ss, limit) ==
    LET completedSessions == SliceLast(FilterThenSort(ss)[FilteredArray], limit)
    IN  [index \in 1..Len(completedSessions) |->
            [date |-> ShortDate(completedSessions[index].started_at),
             strengthScore |-> OrZero(completedSessions[index].strength_score),
             workoutNumber |-> index]]

computeAllStatistics(ss, clock) ==
    [allTime |-> computeAllTimeStats(ss),
     thisWeekVsLastWeek |-> computePeriodComparison(ss, 7, clock),
     personalRecords |-> computePersonalRecords(ss, 10),
     muscleGroups |-> computeMuscleGroupBreakdown(ss),
     strengthTrend |-> prepareStrengthTrendData(ss, 15)]

\* ------------------------------------------------------------------------
\* Inputs
\* ------------------------------------------------------------------------
\* a session of which only the end matters, fetched without its exercises
PlainSession(e) ==
    [started_at |-> IF e = NULL THEN Instant(0) ELSE e,
     ended_at |-> e,
     total_duration_sec |-> NULL,
     strength_score |-> NULL,
     workout_exercises |-> Missing]

StreakInputs ==
    { [i \in 1..Len(es) |-> PlainSession(es[i])] :
        es \in SeqUpTo(Instants \cup {NULL}, MaxStreakSessions) }

\* Logged workouts: a log of at most MaxLog sets, each entry saying where its
\* set goes: into the last exercise ("set"), into a new exercise of the last
\* session ("exercise"), into a new completed session ("session") or into a
\* new session that was never ended ("open").
Places == {"set", "exercise", "session", "open"}

LogWeights == {NULL} \cup (MaxWeight - 1)..MaxWeight

LogReps == {1, MaxReps}

LogNames == {"Squat", "squat"}

\* a set without weight comes with MaxReps reps, and a set logged in a
\* session that was never ended comes in one shape
LogEntries ==
    { e \in [place : Places \ {"open"}, name : LogNames, weight : LogWeights,
             reps : LogReps] : e.weight # NULL \/ e.reps = MaxReps }
    \cup
    [place : {"open"}, name : {"Squat"}, weight : {MaxWeight}, reps : {MaxReps}]

LoggedSet(e, k) ==
    [reps |-> e.reps, weight |-> e.weight, rir |-> NULL,
     completed_at |-> Instant(0) + k]

LoggedExercise(e, k) ==
    [name |-> e.name, workout_sets |-> Some(<<LoggedSet(e, k)>>)]

LoggedSession(e, k) ==
    [started_at |-> Instant(0) + k,
     ended_at |-> IF e.place = "open" THEN NULL ELSE Instant(0) + k + 1,
     total_duration_sec |-> IF e.place = "open" THEN NULL ELSE 3600,
     strength_score |-> NULL,
     workout_exercises |-> Some(<<LoggedExercise(e, k)>>)]

RECURSIVE BuildLog(_, _, _)
BuildLog(log, k, ss) ==
    IF k > Len(log) THEN ss
    ELSE LET e  == log[k]
             n  == Len(ss)
             xs == ss[n].workout_exercises[1]
             m  == Len(xs)
             nxt ==
               IF n = 0 \/ e.place \in {"session", "open"}
               THEN Append(ss, LoggedSession(e, k))
               ELSE IF e.place = "exercise"
               THEN [ss EXCEPT ![n].workout_exercises[1] =
                        Append(xs, LoggedExercise(e, k))]
               ELSE [ss EXCEPT ![n].workout_exercises[1][m].workout_sets[1] =
                        Append(xs[m].workout_sets[1], LoggedSet(e, k))]
         IN  BuildLog(log, k + 1, nxt)

LoggedInputs == { BuildLog(log, 1, <<>>) : log \in SeqUpTo(LogEntries, MaxLog) }

\* Sessions that differ in start, end, duration and strength score, each with
\* one exercise of one set.  The starts lie at and one hour before the edges
\* now, now - 7 days and now - 14 days of the two comparison periods.
AttrStarts ==
    { Instant(MaxTick) - d * HoursPerDay - e : d \in {0, 7, 14}, e \in {0, 1} }
        \ { Instant(MaxTick) - 1 }

\* <<completed, total_duration_sec, strength_score, rir of the set>>
AttrTuples ==
    { <<TRUE, NULL, NULL, NULL>>, <<TRUE, 90, 50, 1>>, <<TRUE, 200, 0, 0>>,
      <<FALSE, 90, 50, 2>> }

AttrSessions ==
    { [started_at |-> st,
       ended_at |-> IF attr[1] THEN st + 1 ELSE NULL,
       total_duration_sec |-> attr[2],
       strength_score |-> attr[3],
       workout_exercises |->
          Some(<< [name |-> "Bench Press",
                   workout_sets |->
                      Some(<< [reps |-> MaxReps, weight |-> MaxWeight,
                               rir |-> attr[4], completed_at |-> st] >>)] >>)] :
        st \in AttrStarts, attr \in AttrTuples }

AttrInputs == SeqUpTo(AttrSessions, MaxAttrSessions)

\* Sparse sessions: the exercise array or the set array missing or empty, a
\* set of zero reps, a set without weight.
SparseSet(w, r) ==
    [reps |-> r, weight |-> w, rir |-> NULL, completed_at |-> Instant(0)]

SparseSetArrays ==
    { Missing, Some(<<>>), Some(<<SparseSet(MaxWeight, 0)>>),
      Some(<<SparseSet(NULL, MaxReps)>>) }

SparseExerciseArrays ==
    { Missing, Some(<<>>) }
    \cup { Some(<<[name |-> "Squat", workout_sets |-> sets]>>) :
             sets \in SparseSetArrays }

SparseSessions ==
    [started_at : {Instant(0)},
     ended_at : {Instant(1)},
     total_duration_sec : {NULL, 90},
     strength_score : {NULL},
     workout_exercises : SparseExerciseArrays]
    \cup
    [started_at : {Instant(0)},
     ended_at : {NULL},
     total_duration_sec : {90},
     strength_score : {NULL},
     workout_exercises : {Some(<<[name |-> "Squat",
                                  workout_sets |-> Some(<<SparseSet(MaxWeight, MaxReps)>>)]>>)}]

SparseInputs == SeqUpTo(SparseSessions, MaxSparseSessions)

\* One completed session of exercises whose names hit the template table in
\* several spellings, or miss it.
MuscleNames == {"Squat", "squat", "Bench Press", "BENCH PRESS", "Plank", "Stretch"}

MuscleExercises ==
    { [name |-> n,
       workout_sets |-> Some(<< [reps |-> MaxReps, weight |-> w, rir |-> NULL,
                                 completed_at |-> Instant(0)] >>)] :
        n \in MuscleNames, w \in (MaxWeight - 1)..MaxWeight }

MuscleInputs ==
    { << [started_at |-> Instant(0),
          ended_at |-> Instant(1),
          total_duration_sec |-> 3600,
          strength_score |-> NULL,
          workout_exercises |-> Some(exs)] >> :
        exs \in SeqUpTo(MuscleExercises, MaxMuscleExercises) }

\* the clock before the last instant, with which a session can end after
\* now, is drawn west of UTC only
Init ==
    /\ \/ /\ sessions \in StreakInputs
          /\ now \in NowInstants
          /\ tzOffset \in TzOffsets
          /\ now = Instant(MaxTick) \/ tzOffset = -TzHours
       \/ /\ sessions \in LoggedInputs \cup AttrInputs \cup SparseInputs
                             \cup MuscleInputs
          /\ now = Instant(MaxTick)
          /\ tzOffset = 0
    /\ op = "none"
    /\ args = <<>>
    /\ result = <<>>
    /\ activeSession = <<>>
    /\ addingSetFor = NoExercise
    /\ requests = <<>>

Call(name, a, r) ==
    /\ op = "none"
    /\ op' = name
    /\ args' = a
    /\ result' = r
    /\ UNCHANGED <<sessions, now, tzOffset>>
    /\ UNCHANGED screenVars

CalculateStreaks == Call("calculateStreaks", <<>>, calculateStreaks(sessions, now))

GetWorkoutDatesForMonth ==
    \E year \in {2024}, month \in {1, 2} :
        Call("getWorkoutDatesForMonth", <<year, month>>,
             getWorkoutDatesForMonth(year, month, sessions))

ComputeAllTimeStats ==
    Call("computeAllTimeStats", <<>>, computeAllTimeStats(sessions))

ComputePeriodComparison ==
    \E days \in {7, 14} :
        Call("computePeriodComparison", <<days>>,
             computePeriodComparison(sessions, days, now))

ComputePersonalRecords ==
    \E limit \in {1, 10} :
        Call("computePersonalRecords", <<limit>>,
             computePersonalRecords(sessions, limit))

ComputeMuscleGroupBreakdown ==
    Call("computeMuscleGroupBreakdown", <<>>, computeMuscleGroupBreakdown(sessions))

\* the caller's array is what the heap holds for it after the call
PrepareStrengthTrendData ==
    \E limit \in {0, 1, 15} :
        /\ op = "none"
        /\ op' = "prepareStrengthTrendData"
        /\ args' = <<limit>>
        /\ result' = prepareStrengthTrendData(sessions, limit)
        /\ sessions' = FilterThenSort(sessions).sessions
        /\ UNCHANGED <<now, tzOffset>>
        /\ UNCHANGED screenVars

ComputeAllStatistics ==
    /\ op = "none"
    /\ op' = "computeAllStatistics"
    /\ args' = <<>>
    /\ result' = computeAllStatistics(sessions, now)
    /\ sessions' = FilterThenSort(sessions).sessions
    /\ UNCHANGED <<now, tzOffset>>
    /\ UNCHANGED screenVars

GetWeeklyFrequency ==
    \E weeks \in {1, 2} :
        Call("getWeeklyFrequency", <<weeks>>,
             getWeeklyFrequency(sessions, weeks, now))

GetWorkoutDays == Call("getWorkoutDays", <<>>, getWorkoutDays(sessions))

Next ==
    \/ CalculateStreaks
    \/ GetWorkoutDays
    \/ GetWorkoutDatesForMonth
    \/ ComputeAllTimeStats
    \/ ComputePeriodComparison
    \/ ComputePersonalRecords
    \/ ComputeMuscleGroupBreakdown
    \/ PrepareStrengthTrendData
    \/ ComputeAllStatistics
    \/ GetWeeklyFrequency

Spec == Init /\ [][Next]_vars

\* ------------------------------------------------------------------------
\* screens/workouts/WorkoutScreen and the workout store
\* ------------------------------------------------------------------------

\* store.toggleExerciseDone: the exercises with isDone of the one flipped
toggleExerciseDone(exercises, exerciseId) ==
    [k \in 1..Len(exercises) |->
        IF exercises[k].id = exerciseId
        THEN [exercises[k] EXCEPT !.isDone = ~exercises[k].isDone]
        ELSE exercises[k]]

\* store.addSet: the exercises with newSet appended to the sets of the one
addSet(exercises, exerciseId, newSet) ==
    [k \in 1..Len(exercises) |->
        IF exercises[k].id = exerciseId
        THEN [exercises[k] EXCEPT !.sets = Append(exercises[k].sets, newSet)]
        ELSE exercises[k]]

\* the Add Set button of the item is rendered and not disabled
AddSetEnabled(item) ==
    /\ ~item.isDone
    /\ addingSetFor # item.id
    /\ ~(item.targetSets # NULL /\ Len(item.sets) >= item.targetSets)

Without(q, n) == SubSeq(q, 1, n - 1) \o SubSeq(q, n + 1, Len(q))

ScreenIds == <<"bench", "squat">>

TargetSets == {NULL} \cup 1..MaxTargetSets

ScreenExercise(k, target) ==
    [id |-> ScreenIds[k], targetSets |-> target, sets |-> <<>>, isDone |-> FALSE]

InitScreen ==
    /\ sessions = <<>>
    /\ now = Instant(0)
    /\ tzOffset = 0
    /\ op = "none"
    /\ args = <<>>
    /\ result = <<>>
    /\ activeSession \in
          { <<ScreenExercise(1, t)>> : t \in TargetSets }
          \cup { <<ScreenExercise(1, t), ScreenExercise(2, u)>> :
                  t \in TargetSets, u \in TargetSets }
    /\ addingSetFor = NoExercise
    /\ requests = <<>>

\* handleAddSet up to its await: the exercise of the render is captured,
\* addingSetFor is set and createWorkoutSet is called
HandleAddSet ==
    \E k \in 1..Len(activeSession) :
        LET exercise == activeSession[k]
        IN  /\ AddSetEnabled(exercise)
            /\ Len(exercise.sets) < MaxSets
            /\ Len(requests) < MaxInFlight
            /\ addingSetFor' = exercise.id
            /\ requests' = Append(requests,
                              [exerciseId |-> exercise.id,
                               setNumber |-> Len(exercise.sets) + 1,
                               targetSets |-> exercise.targetSets])
            /\ UNCHANGED activeSession
            /\ UNCHANGED coreVars

\* handleAddSet after its await when createWorkoutSet gave data: addSet, the
\* toggle when the captured target is reached, and the finally block
CreateWorkoutSetData ==
    \E n \in 1..Len(requests) :
        LET request == requests[n]
            added   == addSet(activeSession, request.exerciseId, request.setNumber)
        IN  /\ activeSession' =
                  IF request.targetSets # NULL
                     /\ request.setNumber >= request.targetSets
                  THEN toggleExerciseDone(added, request.exerciseId)
                  ELSE added
            /\ addingSetFor' = NoExercise
            /\ requests' = Without(requests, n)
            /\ UNCHANGED coreVars

\* handleAddSet after its await when createWorkoutSet gave an error: the
\* alert, the return and the finally block
CreateWorkoutSetError ==
    \E n \in 1..Len(requests) :
        /\ addingSetFor' = NoExercise
        /\ requests' = Without(requests, n)
        /\ UNCHANGED activeSession
        /\ UNCHANGED coreVars

\* a tap on the checkbox of an exercise
TapCheckbox ==
    \E k \in 1..Len(activeSession) :
        /\ activeSession' = toggleExerciseDone(activeSession, activeSession[k].id)
        /\ UNCHANGED <<addingSetFor, requests>>
        /\ UNCHANGED coreVars

NextScreen ==
    \/ HandleAddSet
    \/ CreateWorkoutSetData
    \/ CreateWorkoutSetError
    \/ TapCheckbox

SpecScreen == InitScreen /\ [][NextScreen]_vars

\* ------------------------------------------------------------------------
\* Reference notions the properties are stated in
\* ------------------------------------------------------------------------
\* indices of the completed sessions
Completed == { i \in 1..Len(sessions) : sessions[i].ended_at # NULL }

\* number of the local calendar day an instant falls on
LocalDayOf(t) == (t + tzOffset) \div HoursPerDay

UtcDayOf(t) == t \div HoursPerDay

\* the local calendar days on which a completed session ended
WorkoutDayNums == { LocalDayOf(sessions[i].ended_at) : i \in Completed }

TodayNum == LocalDayOf(now)

\* number of consecutive days of D ending at and including day d
RunEndingAt(D, d) ==
    IF d \notin D THEN 0
    ELSE CHOOSE n \in 1..Cardinality(D) :
            /\ \A k \in 0..(n - 1) : (d - k) \in D
            /\ (d - n) \notin D

\* length of the longest run of adjacent days in D
LongestRun(D) ==
    IF D = {} THEN 0
    ELSE CHOOSE n \in 1..Cardinality(D) :
            /\ \E d \in D : RunEndingAt(D, d) = n
            /\ \A d \in D : RunEndingAt(D, d) <= n

\* ------------------------------------------------------------------------
\* Properties
\* ------------------------------------------------------------------------
\* C1: if the local day of now is a workout day, currentStreak is the number
\* of consecutive local workout days ending at and including today, in
\* every zone.
C1_CurrentStreakEndsToday ==
    (op = "calculateStreaks" /\ TodayNum \in WorkoutDayNums)
        => result.currentStreak = RunEndingAt(WorkoutDayNums, TodayNum)

\* C2: if today is not a workout day but yesterday is, currentStreak is at
\* least 1 and is the number of consecutive workout days ending yesterday.
C2_ContinuationGrace ==
    (op = "calculateStreaks" /\ TodayNum \notin WorkoutDayNums
                             /\ (TodayNum - 1) \in WorkoutDayNums)
        => /\ result.currentStreak >= 1
           /\ result.currentStreak = RunEndingAt(WorkoutDayNums, TodayNum - 1)

\* C3: if neither today nor yesterday is a workout day, currentStreak is 0.
C3_BrokenStreakIsZero ==
    (op = "calculateStreaks" /\ TodayNum \notin WorkoutDayNums
                             /\ (TodayNum - 1) \notin WorkoutDayNums)
        => result.currentStreak = 0

\* C4: with a completed session, longestStreak is the longest run of
\* adjacent dates of the workout-day set, and workout days {today - 2,
\* today} give currentStreak 1 and longestStreak 1.
C4_LongestStreak ==
    (op = "calculateStreaks" /\ Completed # {})
        => /\ result.longestStreak = LongestRun(WorkoutDayNums)
           /\ (WorkoutDayNums = {TodayNum - 2, TodayNum}
                 => /\ result.currentStreak = 1
                    /\ result.longestStreak = 1)

\* The part of C4 about longestStreak alone.
LongestStreakIsLongestRun ==
    (op = "calculateStreaks" /\ Completed # {})
        => result.longestStreak = LongestRun(WorkoutDayNums)

\* C1, C2 and C3 in the zones at or east of UTC.
StreakRulesEastOfUtc ==
    (op = "calculateStreaks" /\ tzOffset >= 0 /\ Completed # {})
        => result.currentStreak =
             IF TodayNum \in WorkoutDayNums
             THEN RunEndingAt(WorkoutDayNums, TodayNum)
             ELSE RunEndingAt(WorkoutDayNums, TodayNum - 1)

\* C6: two instants get the same key iff they fall on the same local day,
\* and getWorkoutDays holds one key per local day with a completed session.
C6_OneKeyPerLocalDay ==
    op = "getWorkoutDays"
        => /\ \A i, j \in Completed :
                (toLocalDateString(sessions[i].ended_at)
                    = toLocalDateString(sessions[j].ended_at))
                <=> (LocalDayOf(sessions[i].ended_at)
                       = LocalDayOf(sessions[j].ended_at))
           /\ Cardinality(result) = Cardinality(WorkoutDayNums)
           /\ result = { toLocalDateString(sessions[i].ended_at) : i \in Completed }

\* two sessions ended on one local day but on different UTC days, and two
\* ended on one UTC day but on different local days
C6_Witness ==
    /\ op = "getWorkoutDays"
    /\ \E i, j \in Completed :
          /\ LocalDayOf(sessions[i].ended_at) = LocalDayOf(sessions[j].ended_at)
          /\ UtcDayOf(sessions[i].ended_at) # UtcDayOf(sessions[j].ended_at)
    /\ Cardinality(result) < Cardinality(Completed)

\* C7: totalWorkouts is the number of sessions with non-null ended_at, each
\* session of a day counted, and the result is {0, 0, 0} with none completed.
C7_TotalWorkouts ==
    op = "calculateStreaks"
        => /\ result.totalWorkouts = Cardinality(Completed)
           /\ (Completed = {}
                 => result = [currentStreak |-> 0, longestStreak |-> 0,
                              totalWorkouts |-> 0])

\* several sessions of one local day are counted one by one
C7_Witness ==
    /\ op = "calculateStreaks"
    /\ result.totalWorkouts > Cardinality(WorkoutDayNums)
    /\ Cardinality(WorkoutDayNums) >= 1


\* the input without its un-ended sessions
CompletedOnly == SelectSeq(sessions, LAMBDA s : s.ended_at # NULL)

\* positions <<session, exercise, set>> of the sets of completed sessions
ExercisesOf(i) ==
    IF sessions[i].workout_exercises = <<>> THEN <<>>
    ELSE sessions[i].workout_exercises[1]

SetsOf(i, j) ==
    IF ExercisesOf(i)[j].workout_sets = <<>> THEN <<>>
    ELSE ExercisesOf(i)[j].workout_sets[1]

SetPositions ==
    UNION { UNION { { <<i, j, k>> : k \in 1..Len(SetsOf(i, j)) } :
                    j \in 1..Len(ExercisesOf(i)) } :
            i \in Completed }

SetAt(p) == SetsOf(p[1], p[2])[p[3]]

NameAt(p) == ExercisesOf(p[1])[p[2]].name

WeightAt(p) == IF SetAt(p).weight = NULL THEN 0 ELSE SetAt(p).weight

VolumeAt(p) == WeightAt(p) * SetAt(p).reps

\* scan order of the positions: by session, then exercise, then set
Earlier(p, q) ==
    \/ p[1] < q[1]
    \/ p[1] = q[1] /\ p[2] < q[2]
    \/ p[1] = q[1] /\ p[2] = q[2] /\ p[3] < q[3]

PositionsNamed(name) == { p \in SetPositions : NameAt(p) = name }

NamesLogged == { NameAt(p) : p \in SetPositions }

\* sum of the volumes, and of the reps, of the sets at the positions of S
RECURSIVE SumVolumes(_)
SumVolumes(S) ==
    IF S = {} THEN 0
    ELSE LET x == CHOOSE y \in S : TRUE
         IN  VolumeAt(x) + SumVolumes(S \ {x})

RECURSIVE SumReps(_)
SumReps(S) ==
    IF S = {} THEN 0
    ELSE LET x == CHOOSE y \in S : TRUE
         IN  SetAt(x).reps + SumReps(S \ {x})

Min(a, b) == IF a < b THEN a ELSE b

\* C5: un-ended sessions never influence a result: each of the seven
\* functions returns what it returns on the input without them.
C5_UnendedSessionsIgnored ==
    /\ op = "calculateStreaks" => result = calculateStreaks(CompletedOnly, now)
    /\ op = "getWorkoutDatesForMonth"
         => result = getWorkoutDatesForMonth(args[1], args[2], CompletedOnly)
    /\ op = "computeAllTimeStats" => result = computeAllTimeStats(CompletedOnly)
    /\ op = "computePeriodComparison"
         => result = computePeriodComparison(CompletedOnly, args[1], now)
    /\ op = "computePersonalRecords"
         => result = computePersonalRecords(CompletedOnly, args[1])
    /\ op = "computeMuscleGroupBreakdown"
         => result = computeMuscleGroupBreakdown(CompletedOnly)
    /\ op = "prepareStrengthTrendData"
         => result = prepareStrengthTrendData(CompletedOnly, args[1])

\* an un-ended session with a logged set and a strength score stands between
\* completed ones and the statistics were computed
C5_Witness ==
    /\ op = "computeAllTimeStats"
    /\ result.totalSets >= 1
    /\ \E i \in 1..Len(sessions) :
          /\ sessions[i].ended_at = NULL
          /\ sessions[i].strength_score # NULL
          /\ sessions[i].total_duration_sec # NULL
          /\ Len(ExercisesOf(i)) >= 1
          /\ Len(SetsOf(i, 1)) >= 1

\* C8: maxWeight is the greatest weight (null as 0) and maxReps the greatest
\* reps over all sets logged under the name in completed sessions.
C8_IndependentMaxima ==
    op = "computePersonalRecords"
        => \A r \in 1..Len(result) :
              LET P == PositionsNamed(result[r].exerciseName)
              IN  /\ \A p \in P : WeightAt(p) <= result[r].maxWeight
                  /\ \A p \in P : SetAt(p).reps <= result[r].maxReps
                  /\ \E p \in P : WeightAt(p) = result[r].maxWeight
                  /\ \E p \in P : SetAt(p).reps = result[r].maxReps

\* C9: one record per exercise name (exact string) with a set in a completed
\* session, as far as limit allows; maxVolume is the greatest single-set
\* volume of the name and achievedAt the completed_at of the first set in
\* scan order that reached it.
C9_RecordPerName ==
    op = "computePersonalRecords"
        => /\ Len(result) = Min(args[1], Cardinality(NamesLogged))
           /\ \A r, q \in 1..Len(result) :
                 result[r].exerciseName = result[q].exerciseName => r = q
           /\ \A r \in 1..Len(result) :
                 LET P == PositionsNamed(result[r].exerciseName)
                     best == { p \in P : VolumeAt(p) = result[r].maxVolume }
                 IN  /\ P # {}
                     /\ \A p \in P : VolumeAt(p) <= result[r].maxVolume
                     /\ \E p \in best :
                           /\ \A q \in best : q = p \/ Earlier(p, q)
                           /\ result[r].achievedAt = SetAt(p).completed_at

\* two different sets of the first record's name tie for its best volume
C9_Witness ==
    /\ op = "computePersonalRecords"
    /\ Len(result) >= 1
    /\ \E p, q \in PositionsNamed(result[1].exerciseName) :
          /\ p # q
          /\ VolumeAt(p) = result[1].maxVolume
          /\ VolumeAt(q) = result[1].maxVolume
          /\ result[1].maxVolume > 0

\* the records keep names apart that differ only in letter case
C9_CaseSensitive ==
    (op = "computePersonalRecords" /\ args[1] >= 2
        /\ {"Squat", "squat"} \subseteq NamesLogged)
        => Len(result) = 2

\* C10 as stated: totalVolume is exactly the sum of (weight or 0) x reps.
C10_TotalsExact ==
    op = "computeAllTimeStats"
        => /\ result.totalWorkouts = Cardinality(Completed)
           /\ result.totalSets = Cardinality(SetPositions)
           /\ result.totalReps = SumReps(SetPositions)
           /\ result.totalVolume * WeightScale = SumVolumes(SetPositions)

\* C10, amended: totalWorkouts, totalSets and totalReps are the exact counts
\* and sum; totalVolume is the sum of (weight or 0) x reps rounded to the
\* nearest integer, halves up.
C10_TotalsRounded ==
    op = "computeAllTimeStats"
        => LET sum == SumVolumes(SetPositions)
           IN  /\ result.totalWorkouts = Cardinality(Completed)
               /\ result.totalSets = Cardinality(SetPositions)
               /\ result.totalReps = SumReps(SetPositions)
               /\ 2 * (sum - result.totalVolume * WeightScale) < WeightScale
               /\ 2 * (result.totalVolume * WeightScale - sum) <= WeightScale

\* one completed session with a single set of a fractional weight, whose
\* volume ends in one half
C10_Witness ==
    /\ op = "computeAllTimeStats"
    /\ result.totalWorkouts = 1
    /\ result.totalSets = 1
    /\ SumVolumes(SetPositions) % WeightScale # 0
    /\ result.totalVolume >= 1


\* the all-time statistics of nothing
ZeroStats ==
    [totalWorkouts |-> 0, totalSets |-> 0, totalReps |-> 0, totalVolume |-> 0,
     totalDuration |-> 0, avgDuration |-> 0, avgSetsPerWorkout |-> 0,
     avgVolumePerWorkout |-> 0, avgRepsPerSet |-> 0, avgRir |-> NULL]

\* every session lacks its exercise array or has only exercises that lack
\* their set array
ArraysMissing ==
    \A i \in 1..Len(sessions) :
        \/ sessions[i].workout_exercises = <<>>
        \/ \A j \in 1..Len(ExercisesOf(i)) : ExercisesOf(i)[j].workout_sets = <<>>

\* C11 as stated: on the empty list, with no completed session, or with the
\* exercise/set arrays missing, every numeric field is 0 and avgRir is null.
C11_SparseAllZero ==
    (op = "computeAllTimeStats" /\ (Completed = {} \/ ArraysMissing))
        => result = ZeroStats

\* C11, amended: with no completed session (the empty list included) every
\* numeric field is 0 and avgRir is null; when the completed sessions have
\* no set (arrays missing, or exercises without sets) the fields derived
\* from sets are 0, avgRepsPerSet included, and avgRir is null, while
\* totalWorkouts still counts the completed sessions.
C11_SparseTotals ==
    op = "computeAllTimeStats"
        => /\ Completed = {} => result = ZeroStats
           /\ SetPositions = {}
                => /\ result.totalWorkouts = Cardinality(Completed)
                   /\ result.totalSets = 0
                   /\ result.totalReps = 0
                   /\ result.totalVolume = 0
                   /\ result.avgSetsPerWorkout = 0
                   /\ result.avgVolumePerWorkout = 0
                   /\ result.avgRepsPerSet = 0
                   /\ result.avgRir = NULL

\* a completed session without its exercise array next to a completed one
\* whose exercise has an empty set array
C11_Witness ==
    /\ op = "computeAllTimeStats"
    /\ result.totalWorkouts = 2
    /\ result.avgRepsPerSet = 0
    /\ \E i, k \in Completed :
          /\ sessions[i].workout_exercises = <<>>
          /\ Len(ExercisesOf(k)) = 1
          /\ ExercisesOf(k)[1].workout_sets = <<<<>>>>


\* completed sessions started in [from, to)
StartedIn(from, to) ==
    { i \in Completed : from <= sessions[i].started_at /\ sessions[i].started_at < to }

\* seconds recorded for the sessions of S
RECURSIVE SumDurations(_)
SumDurations(S) ==
    IF S = {} THEN 0
    ELSE LET i == CHOOSE y \in S : TRUE
             sec == sessions[i].total_duration_sec
         IN  (IF sec = NULL THEN 0 ELSE sec) + SumDurations(S \ {i})

\* the period statistics of the sessions of S
PeriodStatsOf(S) ==
    LET P == { p \in SetPositions : p[1] \in S }
    IN  [workouts |-> Cardinality(S),
         sets |-> Cardinality(P),
         reps |-> SumReps(P),
         volume |-> (2 * SumVolumes(P) + WeightScale) \div (2 * WeightScale),
         duration |-> (SumDurations(S) + 30) \div 60]

\* C12: 'current' aggregates exactly the completed sessions started in
\* [now - days, now) and 'previous' exactly those started in
\* [now - 2*days, now - days); the two windows share no session.
C12_PeriodWindows ==
    op = "computePeriodComparison"
        => LET span == args[1] * HoursPerDay
           IN  /\ result.current = PeriodStatsOf(StartedIn(now - span, now))
               /\ result.previous = PeriodStatsOf(StartedIn(now - 2 * span, now - span))
               /\ StartedIn(now - span, now) \cap StartedIn(now - 2 * span, now - span) = {}

\* a session started exactly at now - days, next to one started before the
\* boundary and ended on it
C12_Witness ==
    /\ op = "computePeriodComparison"
    /\ \E i, k \in Completed :
          /\ sessions[i].started_at = now - args[1] * HoursPerDay
          /\ sessions[k].started_at < now - args[1] * HoursPerDay
          /\ sessions[k].ended_at = now - args[1] * HoursPerDay
    /\ result.current.workouts = 1
    /\ result.previous.workouts = 1


\* c is the percent change from previous to current: the integer nearest to
\* (current - previous) / previous * 100, or 100 / 0 against a previous of 0
ChangeIs(c, current, previous) ==
    IF previous = 0 THEN c = (IF current > 0 THEN 100 ELSE 0)
    ELSE /\ (2 * c - 1) * previous <= 200 * (current - previous)
         /\ 200 * (current - previous) < (2 * c + 1) * previous

\* C13: for workouts, volume and duration the reported change is
\* round((current - previous) / previous * 100) when previous # 0, 100 when
\* previous = 0 and current > 0, and 0 when both are 0.
C13_PercentChange ==
    op = "computePeriodComparison"
        => /\ ChangeIs(result.changes.workouts,
                       result.current.workouts, result.previous.workouts)
           /\ ChangeIs(result.changes.volume,
                       result.current.volume, result.previous.volume)
           /\ ChangeIs(result.changes.duration,
                       result.current.duration, result.previous.duration)

\* volume from nothing is a change of 100
C13_Witness ==
    /\ op = "computePeriodComparison"
    /\ result.previous.volume = 0
    /\ result.current.volume > 0
    /\ result.changes.volume = 100

\* a change that is rounded: 3 minutes down to 2 is -33
C13_RoundedWitness ==
    /\ op = "computePeriodComparison"
    /\ result.previous.duration = 3
    /\ result.current.duration = 2
    /\ result.changes.duration = -33


\* the muscle groups the exercise-muscle table gives a name, whatever its
\* letter case, and "Other" for a name it does not have
TableGroups(name) ==
    IF name \in {"Squat", "squat", "SQUAT"} THEN {"Quadriceps"}
    ELSE IF name \in {"Bench Press", "bench press", "BENCH PRESS"}
         THEN {"Chest", "Triceps"}
         ELSE IF name \in {"Stretch", "stretch", "STRETCH"} THEN {}
              ELSE {"Other"}

\* positions of the sets of completed sessions that count for the group
PositionsOfGroup(G) == { p \in SetPositions : G \in TableGroups(NameAt(p)) }

GroupsLogged == UNION { TableGroups(name) : name \in NamesLogged }

EntriesOf(G) == { k \in 1..Len(result) : result[k].muscleGroup = G }

\* C14: every set of an exercise mapped to two or more muscle groups adds
\* its full volume, one set and its reps to each of those groups.
C14_FullAttribution ==
    op = "computeMuscleGroupBreakdown"
        => \A name \in NamesLogged :
             Cardinality(TableGroups(name)) >= 2
               => \A G \in TableGroups(name) :
                    /\ Cardinality(EntriesOf(G)) = 1
                    /\ \A k \in EntriesOf(G) :
                         /\ result[k].volume =
                              (2 * SumVolumes(PositionsOfGroup(G)) + WeightScale)
                                 \div (2 * WeightScale)
                         /\ result[k].sets = Cardinality(PositionsOfGroup(G))
                         /\ result[k].reps = SumReps(PositionsOfGroup(G))

\* a two-group exercise next to a one-group exercise: the group volumes sum
\* to more than the volume lifted and the percentages to more than 100
C14_Witness ==
    /\ op = "computeMuscleGroupBreakdown"
    /\ Len(result) = 3
    /\ \E a, b, c \in 1..Len(result) :
          /\ result[a].muscleGroup = "Chest"
          /\ result[b].muscleGroup = "Triceps"
          /\ result[c].muscleGroup = "Quadriceps"
          /\ result[a].volume = result[b].volume
          /\ result[a].volume > 0
          /\ (result[a].volume + result[b].volume + result[c].volume) * WeightScale
                > SumVolumes(SetPositions)
          /\ result[a].percentage + result[b].percentage + result[c].percentage > 100

\* c is the whole percent nearest to volume / total, or 0 of a total of 0
NearestPercent(c, volume, total) ==
    IF total = 0 THEN c = 0
    ELSE /\ (2 * c - 1) * total <= 200 * volume
         /\ 200 * volume < (2 * c + 1) * total

\* volume attributed over all groups: a set counts once per group it is in
RECURSIVE AttributedVolume(_)
AttributedVolume(groups) ==
    IF groups = {} THEN 0
    ELSE LET G == CHOOSE H \in groups : TRUE
         IN  SumVolumes(PositionsOfGroup(G)) + AttributedVolume(groups \ {G})

\* C15 as stated: each group's percentage is its volume over the total
\* attributed volume across all groups.
C15_ShareOfAttributed ==
    op = "computeMuscleGroupBreakdown"
        => \A k \in 1..Len(result) :
             NearestPercent(result[k].percentage,
                            SumVolumes(PositionsOfGroup(result[k].muscleGroup)),
                            AttributedVolume(GroupsLogged))

\* C15, amended: each group's percentage is its volume over the total
\* volume of the sets, every set counted once however many groups it is
\* attributed to, rounded to a whole percent, and 0 when that total is 0.
C15_ShareOfTotal ==
    op = "computeMuscleGroupBreakdown"
        => \A k \in 1..Len(result) :
             NearestPercent(result[k].percentage,
                            SumVolumes(PositionsOfGroup(result[k].muscleGroup)),
                            SumVolumes(SetPositions))

\* a two-group exercise whose groups each take a rounded share strictly
\* between 0 and 100
C15_Witness ==
    /\ op = "computeMuscleGroupBreakdown"
    /\ \E a, b \in 1..Len(result) :
          /\ result[a].muscleGroup = "Chest"
          /\ result[b].muscleGroup = "Triceps"
          /\ result[a].percentage = result[b].percentage
          /\ result[a].percentage > 50
          /\ result[a].percentage < 100
          /\ (result[a].volume * 100 * WeightScale) % SumVolumes(SetPositions) # 0

\* C16: the name is looked up without regard to letter case, and a name the
\* table does not have goes to the group "Other" and to no other: the
\* groups reported are those of the names logged, each with as many sets
\* as were logged under the names that map to it.
C16_CaseInsensitiveLookup ==
    op = "computeMuscleGroupBreakdown"
        => /\ \A G \in GroupsLogged : EntriesOf(G) # {}
           /\ \A k \in 1..Len(result) :
                /\ result[k].muscleGroup \in GroupsLogged
                /\ result[k].sets = Cardinality(PositionsOfGroup(result[k].muscleGroup))

\* a name in another letter case than the table's next to a name the table
\* does not have
C16_Witness ==
    /\ op = "computeMuscleGroupBreakdown"
    /\ NamesLogged = {"BENCH PRESS", "Plank"}
    /\ { result[k].muscleGroup : k \in 1..Len(result) } = {"Chest", "Triceps", "Other"}

\* the same name in two letter cases makes one group
C16_SameGroupWitness ==
    /\ op = "computeMuscleGroupBreakdown"
    /\ NamesLogged = {"Squat", "squat"}
    /\ Len(result) = 1
    /\ result[1].muscleGroup = "Quadriceps"
    /\ result[1].sets = 2


\* completed sessions that have a strength score
Scored ==
    { i \in Completed : sessions[i].strength_score # NULL }

\* the trend point of session i when it is the n-th of the series
PointOf(i, n) ==
    [date |-> <<CivilFromDays((sessions[i].started_at + tzOffset) \div HoursPerDay)[2],
                CivilFromDays((sessions[i].started_at + tzOffset) \div HoursPerDay)[3]>>,
     strengthScore |-> sessions[i].strength_score,
     workoutNumber |-> n]

\* C17: with limit >= 1 the series has one point for each of the
\* min(limit, n) most recent of the n completed sessions that have a
\* strength score, in ascending startedAt order, numbered 1, 2, ..., k.
C17_MostRecentTrend ==
    (op = "prepareStrengthTrendData" /\ args[1] >= 1)
        => /\ Len(result) = Min(args[1], Cardinality(Scored))
           /\ \E f \in [1..Len(result) -> Scored] :
                /\ \A a, b \in 1..Len(result) : a # b => f[a] # f[b]
                /\ \A n \in 1..Len(result) : result[n] = PointOf(f[n], n)
                /\ \A a, b \in 1..Len(result) :
                     a < b => sessions[f[a]].started_at <= sessions[f[b]].started_at
                /\ \A i \in Scored \ { f[n] : n \in 1..Len(result) } :
                     \A n \in 1..Len(result) :
                        sessions[i].started_at <= sessions[f[n]].started_at

\* two scored sessions listed latest first and a limit of 1: the series is
\* the one point of the later session
C17_Witness ==
    /\ op = "prepareStrengthTrendData"
    /\ args[1] = 1
    /\ Len(sessions) = 2
    /\ Scored = {1, 2}
    /\ sessions[1].started_at > sessions[2].started_at
    /\ sessions[1].strength_score # sessions[2].strength_score
    /\ result = <<PointOf(1, 1)>>

\* the whole series, put into ascending order
C17_SortedWitness ==
    /\ op = "prepareStrengthTrendData"
    /\ Scored = {1, 2}
    /\ sessions[1].started_at > sessions[2].started_at
    /\ result = <<PointOf(2, 1), PointOf(1, 2)>>


\* <<year, month, day>> of the local day on which session i ended, the
\* month counted from 1
EndedOn(i) == CivilFromDays(LocalDayOf(sessions[i].ended_at))

KeyOfFields(f) == f[1] * 10000 + f[2] * 100 + f[3]

\* C18: with month the zero-based month index, the result holds exactly the
\* workout-day keys of the completed sessions that ended in the requested
\* local year and month, each key once.
C18_MonthKeys ==
    op = "getWorkoutDatesForMonth"
        => /\ \A a, b \in 1..Len(result) : a # b => result[a] # result[b]
           /\ { result[k] : k \in 1..Len(result) }
                = { KeyOfFields(EndedOn(i)) :
                      i \in { j \in Completed : /\ EndedOn(j)[1] = args[1]
                                                /\ EndedOn(j)[2] = args[2] + 1 } }

\* two sessions ended on one day of the requested month and a third in
\* another month: one key
C18_Witness ==
    /\ op = "getWorkoutDatesForMonth"
    /\ Len(result) = 1
    /\ \E i, j, k \in Completed :
          /\ i # j
          /\ KeyOfFields(EndedOn(i)) = result[1]
          /\ KeyOfFields(EndedOn(j)) = result[1]
          /\ EndedOn(k)[2] # args[2] + 1


CoreOperations ==
    {"calculateStreaks", "getWorkoutDatesForMonth", "getWeeklyFrequency",
     "computeAllStatistics", "computeAllTimeStats", "computePeriodComparison",
     "computePersonalRecords", "computeMuscleGroupBreakdown",
     "prepareStrengthTrendData"}

\* C19: no core operation mutates its input: when one of them returns, the
\* session list holds the same sessions in the same order, each with the
\* same exercises and sets.
C19_InputsUnchanged ==
    [][op' \in CoreOperations => sessions' = sessions]_vars

\* prepareStrengthTrendData has returned a sorted series of two and the
\* list still holds its two scored sessions latest first
C19_Witness ==
    /\ Len(sessions) = 2
    /\ Scored = {1, 2}
    /\ sessions[1].started_at > sessions[2].started_at
    /\ op = "prepareStrengthTrendData"
    /\ Len(result) = 2


\* C20: a null weight counts as 0, and a record's maxWeight is 0 only if no
\* set logged under the name in a completed session has a positive weight,
\* in whatever order the sets come.
C20_ZeroMaxWeight ==
    op = "computePersonalRecords"
        => \A r \in 1..Len(result) :
              LET P == PositionsNamed(result[r].exerciseName)
              IN  /\ result[r].maxWeight = 0 => \A p \in P : WeightAt(p) = 0
                  /\ (\A p \in P : SetAt(p).weight = NULL)
                        => result[r].maxWeight = 0 /\ result[r].maxVolume = 0

\* a set without weight came first and a weighted set of no volume after
\* it: the record holds the weight of the later set
C20_Witness ==
    /\ op = "computePersonalRecords"
    /\ \E r \in 1..Len(result) :
          \E p, q \in PositionsNamed(result[r].exerciseName) :
             /\ Earlier(p, q)
             /\ SetAt(p).weight = NULL
             /\ SetAt(p).reps > 0
             /\ WeightAt(q) > 0
             /\ VolumeAt(q) = 0
             /\ result[r].maxWeight = WeightAt(q)
             /\ result[r].maxVolume = 0


\* completed sessions that ended in the trailing window of the given number
\* of weeks that ends now
EndedInTrailing(weeks) ==
    { i \in Completed : /\ now - weeks * 7 * HoursPerDay <= sessions[i].ended_at
                        /\ sessions[i].ended_at <= now }

\* C21: getWeeklyFrequency is the number of distinct local workout days of
\* the completed sessions that ended in the trailing weeks*7-day window
\* ending now, over weeks; sessions ended before the window or after now
\* are not counted.
C21_TrailingWindow ==
    op = "getWeeklyFrequency"
        => result = << Cardinality({ LocalDayOf(sessions[i].ended_at) :
                                       i \in EndedInTrailing(args[1]) }),
                       args[1] >>

\* what the code counts: every completed session that ended on or after the
\* local day of the cutoff, those ended after now included
C21_FromCutoffDay ==
    op = "getWeeklyFrequency"
        => result = << Cardinality({ LocalDayOf(sessions[i].ended_at) :
                         i \in { j \in Completed :
                                   LocalDayOf(sessions[j].ended_at)
                                     >= LocalDayOf(now - args[1] * 7 * HoursPerDay) } }),
                       args[1] >>

\* a single session that ended after now and was counted
C21_FutureCounted ==
    /\ op = "getWeeklyFrequency"
    /\ Len(sessions) = 1
    /\ sessions[1].ended_at > now
    /\ result[1] = 1


\* c is the integer nearest to num / den, den > 0
NearestTo(c, num, den) ==
    /\ (2 * c - 1) * den <= 2 * num
    /\ 2 * num < (2 * c + 1) * den

\* the totals and the averages other than avgVolumePerWorkout: the totals
\* to the nearest integer, the averages (held in tenths) to one decimal
RoundedButAvgVolume ==
    LET n == Cardinality(Completed)
        k == Cardinality(SetPositions)
    IN  /\ NearestTo(result.totalVolume, SumVolumes(SetPositions), WeightScale)
        /\ NearestTo(result.totalDuration, SumDurations(Completed), 60)
        /\ n > 0 => NearestTo(result.avgDuration, 10 * SumDurations(Completed), 60 * n)
        /\ n > 0 => NearestTo(result.avgSetsPerWorkout, 10 * k, n)
        /\ k > 0 => NearestTo(result.avgRepsPerSet, 10 * SumReps(SetPositions), k)

\* C22 as stated: totalVolume and totalDuration are rounded to the nearest
\* integer and each average, avgVolumePerWorkout among them, to one decimal.
C22_AveragesOneDecimal ==
    op = "computeAllTimeStats"
        => /\ RoundedButAvgVolume
           /\ Completed # {}
                => NearestTo(10 * result.avgVolumePerWorkout,
                             10 * SumVolumes(SetPositions),
                             WeightScale * Cardinality(Completed))

\* C22, amended: totalVolume, totalDuration (in minutes) and
\* avgVolumePerWorkout are rounded to the nearest integer; avgDuration (in
\* minutes), avgSetsPerWorkout and avgRepsPerSet to one decimal.
C22_Rounding ==
    op = "computeAllTimeStats"
        => /\ RoundedButAvgVolume
           /\ Completed # {}
                => NearestTo(result.avgVolumePerWorkout,
                             SumVolumes(SetPositions),
                             WeightScale * Cardinality(Completed))

\* an average volume that is not a whole number and was rounded to one
C22_Witness ==
    /\ op = "computeAllTimeStats"
    /\ Completed # {}
    /\ SumVolumes(SetPositions) % (WeightScale * Cardinality(Completed)) # 0
    /\ result.avgVolumePerWorkout * WeightScale * Cardinality(Completed)
          > SumVolumes(SetPositions)

\* an average duration that needs its decimal: 90 s and 200 s make 2.4 min
C22_DurationWitness ==
    /\ op = "computeAllTimeStats"
    /\ result.totalWorkouts = 2
    /\ result.totalDuration = 5
    /\ result.avgDuration = 24


\* positions of the sets of completed sessions that have a RIR
RirPositions == { p \in SetPositions : SetAt(p).rir # NULL }

RECURSIVE SumRir(_)
SumRir(S) ==
    IF S = {} THEN 0
    ELSE LET x == CHOOSE y \in S : TRUE
         IN  SetAt(x).rir + SumRir(S \ {x})

\* C23: avgRir is the mean of rir over exactly the sets of completed
\* sessions whose rir is not null, a rir of 0 counted, to one decimal, and
\* null when there is no such set.
C23_AvgRir ==
    op = "computeAllTimeStats"
        => IF RirPositions = {} THEN result.avgRir = NULL
           ELSE /\ result.avgRir # NULL
                /\ NearestTo(result.avgRir, 10 * SumRir(RirPositions),
                             Cardinality(RirPositions))

\* a set with RIR 0 and a set with RIR 1 in completed sessions: 0.5
C23_Witness ==
    /\ op = "computeAllTimeStats"
    /\ \E p, q \in RirPositions : SetAt(p).rir = 0 /\ SetAt(q).rir = 1
    /\ Cardinality(RirPositions) = 2
    /\ result.avgRir = 5

\* a set without RIR next to a set with RIR 0: the mean is 0, not null
C23_ZeroWitness ==
    /\ op = "computeAllTimeStats"
    /\ Cardinality(SetPositions) = 2
    /\ \E p \in RirPositions : RirPositions = {p} /\ SetAt(p).rir = 0
    /\ result.avgRir = 0


\* greatest single-set volume logged under the name in completed sessions
BestVolume(name) ==
    CHOOSE v \in { VolumeAt(p) : p \in PositionsNamed(name) } :
        \A p \in PositionsNamed(name) : VolumeAt(p) <= v

\* C24: the records come in non-increasing order of maxVolume, there are
\* exactly min(limit, number of distinct exercise names) of them, and none
\* has a smaller maxVolume than the record of a name left out.
C24_TopByVolume ==
    op = "computePersonalRecords"
        => /\ Len(result) = Min(args[1], Cardinality(NamesLogged))
           /\ \A r, q \in 1..Len(result) :
                 r < q => result[r].maxVolume >= result[q].maxVolume
           /\ \A name \in NamesLogged \ { result[r].exerciseName : r \in 1..Len(result) } :
                 \A r \in 1..Len(result) : result[r].maxVolume >= BestVolume(name)

\* limit 1 and two names, the one logged first with the smaller best volume:
\* the record returned is that of the name logged second
C24_Witness ==
    /\ op = "computePersonalRecords"
    /\ args[1] = 1
    /\ Len(result) = 1
    /\ \E name \in NamesLogged :
          /\ name # result[1].exerciseName
          /\ BestVolume(name) < result[1].maxVolume
          /\ \E p \in PositionsNamed(name) :
                \A q \in PositionsNamed(result[1].exerciseName) : Earlier(p, q)

\* all the records, put into order: the name logged first comes second
C24_SortedWitness ==
    /\ op = "computePersonalRecords"
    /\ Len(result) = 2
    /\ result[1].maxVolume > result[2].maxVolume
    /\ \E p \in PositionsNamed(result[2].exerciseName) :
          \A q \in PositionsNamed(result[1].exerciseName) : Earlier(p, q)


\* C25: 0 <= currentStreak <= longestStreak <= number of distinct workout
\* days <= totalWorkouts, whatever the sessions, the clock and the zone.
C25_StreakOrder ==
    op = "calculateStreaks"
        => /\ 0 <= result.currentStreak
           /\ result.currentStreak <= result.longestStreak
           /\ result.longestStreak <= Cardinality(WorkoutDayNums)
           /\ Cardinality(WorkoutDayNums) <= result.totalWorkouts

\* a current streak of one day, a longer run before it, and more workout
\* days than the longest run
C25_Witness ==
    /\ op = "calculateStreaks"
    /\ 0 < result.currentStreak
    /\ result.currentStreak < result.longestStreak
    /\ result.longestStreak < Cardinality(WorkoutDayNums)

\* two sessions ended on one day west of UTC: fewer days than workouts
C25_SameDayWitness ==
    /\ op = "calculateStreaks"
    /\ tzOffset < 0
    /\ result.currentStreak = 1
    /\ Cardinality(WorkoutDayNums) < result.totalWorkouts


\* C26: when the set that brings an exercise's set count to its targetSets
\* has been stored and added, the exercise is marked done, whatever taps on
\* its checkbox came while the request was in flight.
C26_DoneAtTarget ==
    [][\A k \in 1..Len(activeSession) :
          (/\ activeSession[k].targetSets # NULL
           /\ Len(activeSession'[k].sets) = Len(activeSession[k].sets) + 1
           /\ Len(activeSession'[k].sets) = activeSession[k].targetSets)
             => activeSession'[k].isDone]_vars

\* an exercise that has all its target sets, is not marked done and has
\* nothing in flight
C26_TargetReachedNotDone ==
    \E k \in 1..Len(activeSession) :
        /\ activeSession[k].targetSets # NULL
        /\ Len(activeSession[k].sets) = activeSession[k].targetSets
        /\ ~activeSession[k].isDone
        /\ requests = <<>>


\* C27: every set of every completed session is attributed to at least one
\* muscle group, also when the template of its exercise lists no primary
\* muscles, so the set counts of the groups sum to at least the number of
\* sets and their volumes to at least the total volume.
C27_EverySetAttributed ==
    op = "computeMuscleGroupBreakdown"
        => /\ SumSeq([k \in 1..Len(result) |-> result[k].sets], 1)
                >= Cardinality(SetPositions)
           /\ SumSeq([k \in 1..Len(result) |-> result[k].volume], 1) * WeightScale
                >= SumVolumes(SetPositions)

\* what holds: the sets of an exercise whose template lists no primary
\* muscles are in no group, every other set is in at least one
C27_AttributedUnlessNoMuscles ==
    op = "computeMuscleGroupBreakdown"
        => SumSeq([k \in 1..Len(result) |-> result[k].sets], 1)
             >= Cardinality({ p \in SetPositions : TableGroups(NameAt(p)) # {} })

\* a lone exercise whose template lists no primary muscles: no group at all
C27_NoGroup ==
    /\ op = "computeMuscleGroupBreakdown"
    /\ NamesLogged = {"Stretch"}
    /\ result = <<>>


\* the sets of the completed sessions in the order computePersonalRecords
\* visits them, and exerciseRecords after the first n of them
ScannedSets == ScanSets(SelectSeq(sessions, LAMBDA s : s.ended_at # NULL), 1)

RecordsAfter(n) == RecordSets(SubSeq(ScannedSets, 1, n), 1, <<>>)

\* the n-th set meets a record of its name and does not beat its volume
MeetsRecord(n) ==
    LET before == RecordsAfter(n - 1)
        at     == IndexOf(before, ScannedSets[n].name, "exerciseName")
        weight == IF ScannedSets[n].set.weight = NULL THEN 0 ELSE ScannedSets[n].set.weight
    IN  /\ at # 0
        /\ weight * ScannedSets[n].set.reps <= before[at].maxVolume

\* C28: after each set the stored record has maxWeight * maxReps >=
\* maxVolume; a set that does not beat maxVolume never exceeds both
\* maxWeight and maxReps, and after it the record holds the greater of the
\* old maxWeight and its weight and the greater of the old maxReps and its
\* reps: neither update of the non-record branch undoes the other.
C28_RecordProduct ==
    op = "computePersonalRecords"
        => \A n \in 1..Len(ScannedSets) :
              LET before == RecordsAfter(n - 1)
                  after  == RecordsAfter(n)
                  set    == ScannedSets[n].set
                  at     == IndexOf(before, ScannedSets[n].name, "exerciseName")
                  weight == IF set.weight = NULL THEN 0 ELSE set.weight
              IN  /\ \A r \in 1..Len(after) :
                        after[r].maxWeight * after[r].maxReps >= after[r].maxVolume
                  /\ (at # 0 /\ weight * set.reps <= before[at].maxVolume)
                        => /\ ~(weight > before[at].maxWeight
                                  /\ set.reps > before[at].maxReps)
                           /\ after[at].maxWeight
                                 = IF weight > before[at].maxWeight THEN weight
                                   ELSE before[at].maxWeight
                           /\ after[at].maxReps
                                 = IF set.reps > before[at].maxReps THEN set.reps
                                   ELSE before[at].maxReps
                           /\ after[at].maxVolume = before[at].maxVolume

\* a set that did not beat the volume of its record and raised its
\* maxWeight: the product is above maxVolume
C28_Witness ==
    /\ op = "computePersonalRecords"
    /\ \E n \in 1..Len(ScannedSets) :
          /\ MeetsRecord(n)
          /\ \E r \in 1..Len(RecordsAfter(n)) :
                /\ RecordsAfter(n)[r].exerciseName = ScannedSets[n].name
                /\ RecordsAfter(n)[r].maxVolume > 0
                /\ RecordsAfter(n)[r].maxWeight = ScannedSets[n].set.weight
                /\ RecordsAfter(n)[r].maxWeight * RecordsAfter(n)[r].maxReps
                      > RecordsAfter(n)[r].maxVolume


\* C29: prepareStrengthTrendData(sessions, limit) returns at most limit
\* points for every limit >= 0, the empty series for limit = 0.
C29_AtMostLimit ==
    op = "prepareStrengthTrendData" => Len(result) <= args[1]

\* what the code returns: at most limit points for limit >= 1, and with
\* limit = 0 one point for every completed session that has a score
C29_WholeSeriesAtZero ==
    op = "prepareStrengthTrendData"
        => /\ args[1] >= 1 => Len(result) <= args[1]
           /\ args[1] = 0 => Len(result) = Cardinality(Scored)

\* a limit of 0 and a series of two points
C29_ZeroLimitTwoPoints ==
    /\ op = "prepareStrengthTrendData"
    /\ args[1] = 0
    /\ Len(result) = 2


\* the current-streak loop is entered, and the streakDate it starts from
WalkEntered ==
    LET today == toLocalDateString(now)
    IN  \/ today \in getWorkoutDays(sessions)
        \/ toLocalDateString(SetDateBack(ParseDateKey(today), 1))
              \in getWorkoutDays(sessions)

WalkStart ==
    LET today == toLocalDateString(now)
    IN  IF today \in getWorkoutDays(sessions) THEN ParseDateKey(today)
        ELSE ParseDateKey(toLocalDateString(SetDateBack(ParseDateKey(today), 1)))

\* streakDate at the k-th iteration of the loop, and the dateStr read there
RECURSIVE StreakDateAt(_)
StreakDateAt(k) ==
    IF k = 1 THEN WalkStart ELSE SetDateBack(StreakDateAt(k - 1), 1)

DateStrAt(k) == toLocalDateString(StreakDateAt(k))

\* C30: the loop of the current streak reads a strictly earlier local date
\* on each iteration and breaks at iteration currentStreak + 1, which is at
\* most the number of workout days plus one.
C30_WalkStops ==
    (op = "calculateStreaks" /\ WalkEntered)
        => LET days == getWorkoutDays(sessions)
               last == result.currentStreak + 1
           IN  /\ last <= Cardinality(days) + 1
               /\ \A k \in 1..(last - 1) : DateStrAt(k) \in days
               /\ DateStrAt(last) \notin days
               /\ \A k \in 1..Cardinality(days) : DateStrAt(k + 1) < DateStrAt(k)

\* two workout days, both counted: the loop breaks at its third iteration,
\* one more than the number of workout days
C30_Witness ==
    /\ op = "calculateStreaks"
    /\ WalkEntered
    /\ Cardinality(getWorkoutDays(sessions)) = 2
    /\ result.currentStreak = 2

\* west of UTC the loop starts a day early and still counts two days
C30_WestWitness ==
    /\ op = "calculateStreaks"
    /\ WalkEntered
    /\ tzOffset < 0
    /\ result.currentStreak = 2

====
